---- MODULE Spec2Model ----
(***************************************************************************)
(* Model of the scripted console dialogues of gns3/gns3utils.py:           *)
(* install_vyos_image_on_node and configure_vyos_image_on_node, run over   *)
(* telnetlib.Telnet against a remote console.                              *)
(*                                                                         *)
(* The received byte stream is abstracted into tokens: one token per       *)
(* occurrence of an awaited pattern, a digest line of md5sum, a stretch    *)
(* of unrelated output ("junk") and a stretch of output that is not valid  *)
(* UTF-8 ("bad").  tn.cookedq is the sequence of tokens received and not   *)
(* yet consumed.  Time is abstracted: a wait that has a deadline may end   *)
(* by timeout whenever the awaited pattern is not in the buffer.           *)
(***************************************************************************)
EXTENDS Integers, Sequences, FiniteSets, TLC

\* ------------------------------------------------------------ bounds
\* Largest number of unconsumed tokens held in tn.cookedq.
MaxBuf == 2
\* Largest number of tokens one recv() delivers.
MaxChunk == 2
\* Number of distinct local file contents.
NumContents == 2
\* Number of distinct digest values (Md5 maps contents onto them).
NumDigests == 2
\* Number of routers the provisioning loop installs and configures.
NumRouters == 2
\* Largest num_devices of a cluster below the limit of the switch.
MaxDevices == 4
\* Largest devices_per_row of a cluster.
MaxPerRow == 3

\* ------------------------------------------------------------ program constants
\* assert num_devices < 64 in create_cluster_of_devices.
SwitchPorts == 64

\* ------------------------------------------------------------ data
Contents == 0 .. (NumContents - 1)
Digests  == 0 .. (NumDigests - 1)

\* hashlib.md5(data).hexdigest(): a function of the bytes alone, not injective.
Md5(data) == data % NumDigests

\* base64.b64encode(data): injective, and never the bytes themselves.
B64Encode(data) == data + NumContents

\* Tokens of the received stream.
Tok(name) == [t |-> name, d |-> 0]
DigestLine(d) == [t |-> "md5line", d |-> d]
Junk == Tok("junk")
Bad == Tok("bad")

\* The patterns awaited by the two dialogues.
LoginBanner   == "vyos login:"
PasswordQ     == "Password:"
ShellPrompt   == "vyos@vyos:~$"
ContinueQ1    == "Would you like to continue? (Yes/No)"
PartitionQ    == "Partition (Auto/Parted/Skip)"
InstallOnQ    == "Install the image on"
ContinueQ2    == "Continue? (Yes/No)"
RootSizeQ     == "How big of a root partition should I create"
ImageNameQ    == "What would you like to name this image"
CopyToQ       == "Which one should I copy to"
EnterPwQ      == "Enter password for user 'vyos':"
RetypePwQ     == "Retype password for user 'vyos':"
GrubQ         == "Which drive should GRUB modify the boot partition on"
PoweroffQ     == "Are you sure you want to poweroff this system"
DoneMarker    == "Done"
Md5Regex      == "[0-9a-f]{32}  config.sh"

\* Instructions of a dialogue, in program order.
RU(pat)    == [op |-> "read_until", text |-> "", pat |-> pat, timeout |-> 0]
W(text)    == [op |-> "write", text |-> text, pat |-> "", timeout |-> 0]
E(pat, t)  == [op |-> "expect", text |-> "", pat |-> pat, timeout |-> t]
EMd5(t)    == [op |-> "expect_md5", text |-> "", pat |-> Md5Regex, timeout |-> t]
WPayload   == [op |-> "write_payload", text |-> "echo '<config>' >> config.b64\n",
               pat |-> "", timeout |-> 0]

\* InstallProgram without its last statement: the poweroff question is never
\* answered.
InstallProgram_NoConfirm ==
  << RU(LoginBanner),
     W("vyos\n"),          E(PasswordQ, 10),
     W("vyos\n"),          E(ShellPrompt, 10),
     W("install image\n"), E(ContinueQ1, 10),
     W("Yes\n"),           E(PartitionQ, 10),
     W("Auto\n"),          E(InstallOnQ, 10),
     W("\n"),              E(ContinueQ2, 10),
     W("Yes\n"),           E(RootSizeQ, 30),
     W("\n"),              E(ImageNameQ, 30),
     W("\n"),              E(CopyToQ, 30),
     W("\n"),              E(EnterPwQ, 10),
     W("vyos\n"),          E(RetypePwQ, 10),
     W("vyos\n"),          E(GrubQ, 10),
     W("\n"),              E(ShellPrompt, 30),
     W("poweroff\n"),      E(PoweroffQ, 10) >>

\* InstallProgram without its first statement: the login name is written at
\* once, without waiting for the banner.
InstallProgram_NoBannerWait ==
  << W("vyos\n"),          E(PasswordQ, 10),
     W("vyos\n"),          E(ShellPrompt, 10),
     W("install image\n"), E(ContinueQ1, 10),
     W("Yes\n"),           E(PartitionQ, 10),
     W("Auto\n"),          E(InstallOnQ, 10),
     W("\n"),              E(ContinueQ2, 10),
     W("Yes\n"),           E(RootSizeQ, 30),
     W("\n"),              E(ImageNameQ, 30),
     W("\n"),              E(CopyToQ, 30),
     W("\n"),              E(EnterPwQ, 10),
     W("vyos\n"),          E(RetypePwQ, 10),
     W("vyos\n"),          E(GrubQ, 10),
     W("\n"),              E(ShellPrompt, 30),
     W("poweroff\n"),      E(PoweroffQ, 10),
     W("y\n") >>

\* The body of the with-block of install_vyos_image_on_node.  The print calls
\* are part of the wait they follow; time.sleep changes no state and is left out.
InstallProgram ==
  << RU(LoginBanner),
     W("vyos\n"),          E(PasswordQ, 10),
     W("vyos\n"),          E(ShellPrompt, 10),
     W("install image\n"), E(ContinueQ1, 10),
     W("Yes\n"),           E(PartitionQ, 10),
     W("Auto\n"),          E(InstallOnQ, 10),
     W("\n"),              E(ContinueQ2, 10),
     W("Yes\n"),           E(RootSizeQ, 30),
     W("\n"),              E(ImageNameQ, 30),
     W("\n"),              E(CopyToQ, 30),
     W("\n"),              E(EnterPwQ, 10),
     W("vyos\n"),          E(RetypePwQ, 10),
     W("vyos\n"),          E(GrubQ, 10),
     W("\n"),              E(ShellPrompt, 30),
     W("poweroff\n"),      E(PoweroffQ, 10),
     W("y\n") >>

\* The body of the with-block of configure_vyos_image_on_node.
ConfigureProgram ==
  << RU(LoginBanner),
     W("vyos\n"),          E(PasswordQ, 10),
     W("vyos\n"),          E(ShellPrompt, 10),
     WPayload,             E(ShellPrompt, 10),
     W("base64 --decode config.b64 > config.sh\n"), E(ShellPrompt, 10),
     W("md5sum config.sh\n"), EMd5(5),
     W("chmod +x config.sh\n"), E(ShellPrompt, 10),
     W("./config.sh\n"),   E(DoneMarker, 60), E(ShellPrompt, 10),
     W("poweroff\n"),      E(PoweroffQ, 10),
     W("y\n") >>

Program(p) == IF p = "install" THEN InstallProgram ELSE ConfigureProgram

\* The same two dialogues as gns3/scenario.py has them: the bodies of the
\* with-blocks of its install_vyos_image_on_node and
\* configure_vyos_image_on_node, which take no pre_exec.
ScenarioInstallProgram ==
  << RU(LoginBanner),
     W("vyos\n"),          E(PasswordQ, 10),
     W("vyos\n"),          E(ShellPrompt, 10),
     W("install image\n"), E(ContinueQ1, 10),
     W("Yes\n"),           E(PartitionQ, 10),
     W("Auto\n"),          E(InstallOnQ, 10),
     W("\n"),              E(ContinueQ2, 10),
     W("Yes\n"),           E(RootSizeQ, 30),
     W("\n"),              E(ImageNameQ, 30),
     W("\n"),              E(CopyToQ, 30),
     W("\n"),              E(EnterPwQ, 10),
     W("vyos\n"),          E(RetypePwQ, 10),
     W("vyos\n"),          E(GrubQ, 10),
     W("\n"),              E(ShellPrompt, 30),
     W("poweroff\n"),      E(PoweroffQ, 10),
     W("y\n") >>

\* ScenarioConfigureProgram with a shorter deadline for the completion marker.
ScenarioConfigureProgram_ShortDone ==
  << RU(LoginBanner),
     W("vyos\n"),          E(PasswordQ, 10),
     W("vyos\n"),          E(ShellPrompt, 10),
     WPayload,             E(ShellPrompt, 10),
     W("base64 --decode config.b64 > config.sh\n"), E(ShellPrompt, 10),
     W("md5sum config.sh\n"), EMd5(5),
     W("chmod +x config.sh\n"), E(ShellPrompt, 10),
     W("./config.sh\n"),   E(DoneMarker, 10), E(ShellPrompt, 10),
     W("poweroff\n"),      E(PoweroffQ, 10),
     W("y\n") >>

ScenarioConfigureProgram ==
  << RU(LoginBanner),
     W("vyos\n"),          E(PasswordQ, 10),
     W("vyos\n"),          E(ShellPrompt, 10),
     WPayload,             E(ShellPrompt, 10),
     W("base64 --decode config.b64 > config.sh\n"), E(ShellPrompt, 10),
     W("md5sum config.sh\n"), EMd5(5),
     W("chmod +x config.sh\n"), E(ShellPrompt, 10),
     W("./config.sh\n"),   E(DoneMarker, 60), E(ShellPrompt, 10),
     W("poweroff\n"),      E(PoweroffQ, 10),
     W("y\n") >>

ScenarioProgram(p) ==
  IF p = "install" THEN ScenarioInstallProgram ELSE ScenarioConfigureProgram

\* re.search(pat, token): the md5 expression matches a digest line only.
Matches(pat, tok) ==
  IF pat = Md5Regex THEN tok.t = "md5line" ELSE tok.t = pat

IsWait(ins) == ins.op \in {"read_until", "expect", "expect_md5"}

\* The waits a token received during instruction i of dialogue p can still
\* satisfy: a token stays in cookedq only behind the tokens that satisfy the
\* waits before it, and cookedq holds at most MaxBuf tokens.
Ahead(p, i) ==
  {j \in i .. Len(Program(p)) :
     /\ IsWait(Program(p)[j])
     /\ Cardinality({k \in i .. j : IsWait(Program(p)[k])}) <= MaxBuf}

\* What the remote console emits during instruction i of dialogue p: text that
\* satisfies one of those waits, unrelated text, or bytes that are not UTF-8.
Alphabet(p, i) ==
  {Tok(Program(p)[j].pat) : j \in {k \in Ahead(p, i) : Program(p)[k].pat # Md5Regex}}
    \cup {Junk, Bad}
    \cup (IF \E j \in Ahead(p, i) : Program(p)[j].pat = Md5Regex
            THEN {DigestLine(d) : d \in Digests} ELSE {})
Chunks(p, i) ==
  UNION {[1 .. n -> Alphabet(p, i)] : n \in 1 .. MaxChunk}

\* Position of the end of the leftmost match of pat in q, 0 when there is none.
MatchEnd(pat, q) ==
  IF \E i \in 1 .. Len(q) : Matches(pat, q[i])
    THEN CHOOSE i \in 1 .. Len(q) :
           Matches(pat, q[i]) /\ \A j \in 1 .. (i - 1) : ~Matches(pat, q[j])
    ELSE 0

\* bytes.decode("utf-8") raises UnicodeDecodeError on text that holds a
\* sequence that is not valid UTF-8.
DecodeFails(text) == \E i \in 1 .. Len(text) : text[i] = Bad

\* out[1].group().decode("utf-8").split()[0]: the digest of a digest line.
ParseDigest(tok) == tok.d

\* ------------------------------------------------------------ state
VARIABLES
  proc,               \* which function runs: "install" or "configure"
  pre_exec,           \* whether the caller gave pre_exec
  file,               \* content of the file at path_script (configure only)
  pc,                 \* position in the function
  ip,                 \* index of the current instruction of the with-block
  pre_proc,           \* the helper process: "none", "running" or "killed"
  local_checksum,     \* md5sum_file(path_script), -1 before it is computed
  config,             \* base64 of the file, -1 before it is read
  tn,                 \* the Telnet object: sock, cookedq, eof
  peer,               \* the remote end of the connection: "up", "closed", "reset"
  uploaded_checksum,  \* digest captured from the console, -1 when none
  warns,              \* warnings issued with warnings.warn
  exc,                \* exception propagating to the caller, "None" when none
  returning,          \* the early return of the md5sum step was taken
  sent,               \* bytes written with tn.write, in order
  opens,              \* connections opened
  closes,             \* sockets closed
  firstTimeout,       \* ip of the first wait ended by its deadline, 0 when none
  firstIoFail,        \* ip of the first read or write that failed, 0 when none
  cmpAt,              \* Len(sent) when the digests were compared, 0 before
  exact,              \* the remote has so far replied exactly what was awaited
  doneSeen,           \* the wait for the completion marker "Done" found it
  transcript,         \* the writes and the returned waits of the call, in order
  lpc,                \* position of the caller: "single" for a lone call
  router,             \* index of the router the caller is provisioning
  node,               \* state of each router: "stopped", "started", "halting"
  startedSinceOff,    \* start_node was requested since the router was last told to
                      \* power off, or went off
  installOk,          \* the install call on this router matched every pattern
  liveSessions,       \* connections left open by the calls that have returned
  config_b64,         \* the payloads held by the file config.b64 on the router
  cpc,                \* position in create_cluster_of_devices, "idle" outside it
  num_devices,        \* its argument num_devices
  devices_per_row,    \* its argument devices_per_row
  dev_i,              \* the loop variable i of its current loop
  dy,                 \* its local dy, in grid units
  switch_node_id,     \* its local switch_node_id, 0 before the switch exists
  devices_node_id,    \* its local list devices_node_id
  devices_link_id,    \* its local list devices_link_id
  gns3                \* the project on the GNS3 server: nodes, links, files, drawings

vars == << proc, pre_exec, file, pc, ip, pre_proc, local_checksum, config, tn,
           peer, uploaded_checksum, warns, exc, returning, sent, opens, closes,
           firstTimeout, firstIoFail, cmpAt, exact, doneSeen, transcript,
           lpc, router, node, startedSinceOff, installOk, liveSessions,
           config_b64, cpc, num_devices, devices_per_row, dev_i, dy,
           switch_node_id, devices_node_id, devices_link_id, gns3 >>

inputs == << proc, pre_exec, file >>
caller == << lpc, router, node, startedSinceOff, installOk, liveSessions >>
locals == << local_checksum, config >>
counts == << opens, closes >>
disk   == << config_b64 >>
cluster == << cpc, num_devices, devices_per_row, dev_i, dy, switch_node_id,
              devices_node_id, devices_link_id, gns3 >>

\* create_cluster_of_devices is not running and the project is empty.
ClusterIdle ==
  /\ cpc = "idle"
  /\ num_devices = 0
  /\ devices_per_row = 1
  /\ dev_i = 0
  /\ dy = 0
  /\ switch_node_id = 0
  /\ devices_node_id = << >>
  /\ devices_link_id = << >>
  /\ gns3 = [nodes |-> << >>, links |-> << >>, files |-> << >>, drawings |-> 0]

Routers == 1 .. NumRouters

Cur == Program(proc)[ip]
ErrMd5 == "Error generating file MD5 checksum."
ErrMismatch == "Checksums do not match."

Init ==
  /\ proc \in {"install", "configure"}
  /\ pre_exec \in BOOLEAN
  /\ file \in (IF proc = "configure" THEN Contents ELSE {0})
  /\ pc = "start"
  /\ ip = 1
  /\ pre_proc = "none"
  /\ local_checksum = -1
  /\ config = -1
  /\ tn = [sock |-> "none", cookedq |-> << >>, eof |-> FALSE]
  /\ peer = "up"
  /\ uploaded_checksum = -1
  /\ warns = {}
  /\ exc = "None"
  /\ returning = FALSE
  /\ sent = << >>
  /\ opens = 0
  /\ closes = 0
  /\ firstTimeout = 0
  /\ firstIoFail = 0
  /\ cmpAt = 0
  /\ exact = TRUE
  /\ doneSeen = FALSE
  /\ transcript = << >>
  /\ lpc = "single"
  /\ router = 1
  /\ node = [r \in Routers |-> "started"]
  /\ startedSinceOff = [r \in Routers |-> TRUE]
  /\ installOk = FALSE
  /\ liveSessions = 0
  /\ config_b64 = << >>
  /\ ClusterIdle

\* ------------------------------------------------------------ control flow
\* An exception raised inside the with-block unwinds through Telnet.__exit__.
Raise(e) ==
  /\ exc' = e
  /\ pc' = "exit_with"
  /\ ip' = ip

\* Control passes to the next statement; after the last one the block ends.
Advance ==
  /\ exc' = exc
  /\ IF ip = Len(Program(proc))
       THEN pc' = "exit_with" /\ ip' = ip
       ELSE pc' = pc /\ ip' = ip + 1

\* print(out[2].decode("utf-8")) after a wait that returned text.
PrintDecoded(text) ==
  IF DecodeFails(text) THEN Raise("UnicodeDecodeError") ELSE Advance

\* A write, or a wait that returned, is one event of the call.
Logged(dir) == transcript' = Append(transcript, [dir |-> dir, step |-> ip])

NoteTimeout == firstTimeout' = IF firstTimeout = 0 THEN ip ELSE firstTimeout
NoteIoFail  == firstIoFail' = IF firstIoFail = 0 THEN ip ELSE firstIoFail

\* ------------------------------------------------------------ before the session
\* if pre_exec: pre_proc = subprocess.Popen(...)
Start ==
  /\ pc = "start"
  /\ pre_proc' = IF pre_exec THEN "running" ELSE "none"
  /\ pc' = IF proc = "install" THEN "connect" ELSE "md5sum_file"
  /\ UNCHANGED << doneSeen, transcript >>
  /\ UNCHANGED << inputs, caller, cluster, disk, ip, locals, tn, peer, uploaded_checksum, warns, exc,
                  returning, sent, counts, firstTimeout, firstIoFail, cmpAt, exact >>

\* md5sum_file whose result also depends on who calls it, not on the bytes alone.
Md5sumFile_DependsOnCaller ==
  /\ pc = "md5sum_file"
  /\ local_checksum' = Md5(file + (IF pre_exec THEN 1 ELSE 0))
  /\ pc' = "read_config"
  /\ UNCHANGED << doneSeen, transcript >>
  /\ UNCHANGED << inputs, caller, cluster, disk, ip, pre_proc, config, tn, peer, uploaded_checksum, warns,
                  exc, returning, sent, counts, firstTimeout, firstIoFail, cmpAt,
                  exact >>

\* local_checksum = md5sum_file(path_script)
Md5sumFile ==
  /\ pc = "md5sum_file"
  /\ local_checksum' = Md5(file)
  /\ pc' = "read_config"
  /\ UNCHANGED << doneSeen, transcript >>
  /\ UNCHANGED << inputs, caller, cluster, disk, ip, pre_proc, config, tn, peer, uploaded_checksum, warns,
                  exc, returning, sent, counts, firstTimeout, firstIoFail, cmpAt,
                  exact >>

\* with open(path_script, "rb") as f: config = base64.b64encode(f.read())
ReadConfig ==
  /\ pc = "read_config"
  /\ config' = B64Encode(file)
  /\ pc' = "connect"
  /\ UNCHANGED << doneSeen, transcript >>
  /\ UNCHANGED << inputs, caller, cluster, disk, ip, pre_proc, local_checksum, tn, peer, uploaded_checksum,
                  warns, exc, returning, sent, counts, firstTimeout, firstIoFail,
                  cmpAt, exact >>

\* open(path_script) raises: the function is left before the connection exists.
OpenFileFails ==
  /\ pc \in {"md5sum_file", "read_config"}
  /\ exc' = "FileNotFoundError"
  /\ pc' = "done"
  /\ exact' = FALSE
  /\ UNCHANGED << doneSeen, transcript >>
  /\ UNCHANGED << inputs, caller, cluster, disk, ip, pre_proc, locals, tn, peer, uploaded_checksum, warns,
                  returning, sent, counts, firstTimeout, firstIoFail, cmpAt >>

\* Another party rewrites the file at path_script while the function reads it:
\* the file holds its next version.  A change after the last read cannot reach
\* the function and is left out.
FileModified ==
  /\ pc \in {"md5sum_file", "read_config"}
  /\ file + 1 \in Contents
  /\ file' = file + 1
  /\ UNCHANGED << proc, pre_exec, caller, disk, cluster, pc, ip, pre_proc, locals, tn, peer,
                  uploaded_checksum, warns, exc, returning, sent, counts,
                  firstTimeout, firstIoFail, cmpAt, exact, doneSeen, transcript >>

\* with Telnet(hostname, telnet_port) as tn: the connection is made, which
\* takes the console of a running node.
Connect ==
  /\ pc = "connect"
  /\ node[router] \in {"started", "halting"}
  /\ tn' = [tn EXCEPT !.sock = "open"]
  /\ opens' = opens + 1
  /\ pc' = "run"
  /\ UNCHANGED << doneSeen, transcript >>
  /\ UNCHANGED << inputs, caller, cluster, disk, ip, pre_proc, locals, peer, uploaded_checksum, warns, exc,
                  returning, sent, closes, firstTimeout, firstIoFail, cmpAt, exact >>

\* Telnet(hostname, telnet_port) raises: there is no with-block to leave.
ConnectFails ==
  /\ pc = "connect"
  /\ exc' = "ConnectionRefusedError"
  /\ pc' = "done"
  /\ exact' = FALSE
  /\ UNCHANGED << doneSeen, transcript >>
  /\ UNCHANGED << inputs, caller, cluster, disk, ip, pre_proc, locals, tn, peer, uploaded_checksum, warns,
                  returning, sent, counts, firstTimeout, firstIoFail, cmpAt >>

\* ------------------------------------------------------------ the remote end
\* sock.recv() in fill_rawq delivers a chunk of console output; process_rawq
\* appends it to cookedq.  A wait reads only while its pattern is not found.
Recv(chunk) ==
  /\ pc = "run"
  /\ IsWait(Cur)
  /\ ~tn.eof
  /\ peer = "up"
  /\ MatchEnd(Cur.pat, tn.cookedq) = 0
  /\ Len(tn.cookedq) + Len(chunk) <= MaxBuf
  /\ tn' = [tn EXCEPT !.cookedq = @ \o chunk]
  /\ exact' = (exact /\ tn.cookedq = << >> /\ Len(chunk) = 1
                 /\ Matches(Cur.pat, chunk[1]))
  /\ UNCHANGED << doneSeen, transcript >>
  /\ UNCHANGED << inputs, caller, cluster, disk, pc, ip, pre_proc, locals, peer, uploaded_checksum, warns,
                  exc, returning, sent, counts, firstTimeout, firstIoFail, cmpAt >>

\* The remote end closes the connection (the machine powers off, the console dies).
RemoteClose ==
  /\ pc = "run"
  /\ peer = "up"
  /\ peer' = "closed"
  /\ exact' = FALSE
  /\ UNCHANGED << doneSeen, transcript >>
  /\ UNCHANGED << inputs, caller, cluster, disk, pc, ip, pre_proc, locals, tn, uploaded_checksum, warns,
                  exc, returning, sent, counts, firstTimeout, firstIoFail, cmpAt >>

\* The connection is reset.
RemoteReset ==
  /\ pc = "run"
  /\ peer = "up"
  /\ peer' = "reset"
  /\ exact' = FALSE
  /\ UNCHANGED << doneSeen, transcript >>
  /\ UNCHANGED << inputs, caller, cluster, disk, pc, ip, pre_proc, locals, tn, uploaded_checksum, warns,
                  exc, returning, sent, counts, firstTimeout, firstIoFail, cmpAt >>

\* ------------------------------------------------------------ the dialogue
\* tn.write(...): sock.sendall succeeds.  After the peer closed its end the
\* first sendall may still be accepted by the local socket.
Write ==
  /\ pc = "run"
  /\ Cur.op \in {"write", "write_payload"}
  /\ peer \in {"up", "closed"}
  /\ sent' = Append(sent, [step |-> ip, text |-> Cur.text,
                           b64 |-> IF Cur.op = "write_payload" THEN config ELSE -1])
  /\ config_b64' = IF Cur.op = "write_payload" /\ peer = "up"
                     THEN Append(config_b64, config)
                     ELSE config_b64
  /\ Advance
  /\ Logged("sent")
  /\ UNCHANGED doneSeen
  /\ UNCHANGED << inputs, caller, cluster, pre_proc, locals, tn, peer, uploaded_checksum, warns,
                  returning, counts, firstTimeout, firstIoFail, cmpAt, exact >>

\* tn.write(...): sock.sendall raises OSError on a closed or reset connection.
WriteFails ==
  /\ pc = "run"
  /\ Cur.op \in {"write", "write_payload"}
  /\ peer \in {"closed", "reset"}
  /\ Raise("OSError")
  /\ NoteIoFail
  /\ UNCHANGED << doneSeen, transcript >>
  /\ UNCHANGED << inputs, caller, cluster, disk, pre_proc, locals, tn, peer, uploaded_checksum, warns,
                  returning, sent, counts, firstTimeout, cmpAt, exact >>

\* sock.recv() raises ConnectionResetError inside read_until or expect.
RecvFails ==
  /\ pc = "run"
  /\ IsWait(Cur)
  /\ ~tn.eof
  /\ peer = "reset"
  /\ MatchEnd(Cur.pat, tn.cookedq) = 0
  /\ Raise("ConnectionResetError")
  /\ NoteIoFail
  /\ UNCHANGED << doneSeen, transcript >>
  /\ UNCHANGED << inputs, caller, cluster, disk, pre_proc, locals, tn, peer, uploaded_checksum, warns,
                  returning, sent, counts, firstTimeout, cmpAt, exact >>

\* out = tn.read_until(b"vyos login:") finds the banner; print(out.decode(...)).
ReadUntilMatch ==
  /\ pc = "run"
  /\ Cur.op = "read_until"
  /\ LET e == MatchEnd(Cur.pat, tn.cookedq) IN
       /\ e # 0
       /\ tn' = [tn EXCEPT !.cookedq = SubSeq(@, e + 1, Len(@))]
       /\ PrintDecoded(SubSeq(tn.cookedq, 1, e))
  /\ Logged("received")
  /\ UNCHANGED doneSeen
  /\ UNCHANGED << inputs, caller, cluster, disk, pre_proc, locals, peer, uploaded_checksum, warns,
                  returning, sent, counts, firstTimeout, firstIoFail, cmpAt, exact >>

\* read_until meets end of file: EOFError when nothing was read, otherwise it
\* returns what was read, without the banner, and the caller carries on.
ReadUntilEOF ==
  /\ pc = "run"
  /\ Cur.op = "read_until"
  /\ peer = "closed"
  /\ MatchEnd(Cur.pat, tn.cookedq) = 0
  /\ tn' = [tn EXCEPT !.eof = TRUE, !.cookedq = << >>]
  /\ IF tn.cookedq = << >> THEN Raise("EOFError") ELSE PrintDecoded(tn.cookedq)
  /\ NoteIoFail
  /\ IF tn.cookedq = << >> THEN UNCHANGED transcript ELSE Logged("received")
  /\ UNCHANGED doneSeen
  /\ UNCHANGED << inputs, caller, cluster, disk, pre_proc, locals, peer, uploaded_checksum, warns,
                  returning, sent, counts, firstTimeout, cmpAt, exact >>

\* out = tn.expect([pattern], timeout) finds the pattern; print(out[2].decode(...)).
ExpectMatch ==
  /\ pc = "run"
  /\ Cur.op = "expect"
  /\ ~tn.eof
  /\ LET e == MatchEnd(Cur.pat, tn.cookedq) IN
       /\ e # 0
       /\ tn' = [tn EXCEPT !.cookedq = SubSeq(@, e + 1, Len(@))]
       /\ PrintDecoded(SubSeq(tn.cookedq, 1, e))
  /\ Logged("received")
  /\ doneSeen' = (doneSeen \/ Cur.pat = DoneMarker)
  /\ UNCHANGED << inputs, caller, cluster, disk, pre_proc, locals, peer, uploaded_checksum, warns,
                  returning, sent, counts, firstTimeout, firstIoFail, cmpAt, exact >>

\* ExpectTimeout that retries the step: at the deadline control goes back to
\* the write before the wait.
ExpectTimeout_Retry ==
  /\ pc = "run"
  /\ Cur.op = "expect"
  /\ ~tn.eof
  /\ peer = "up"
  /\ MatchEnd(Cur.pat, tn.cookedq) = 0
  /\ tn' = [tn EXCEPT !.cookedq = << >>]
  /\ ip' = ip - 1
  /\ pc' = pc
  /\ exc' = exc
  /\ NoteTimeout
  /\ exact' = FALSE
  /\ Logged("received")
  /\ UNCHANGED doneSeen
  /\ UNCHANGED << inputs, caller, cluster, disk, pre_proc, locals, peer, uploaded_checksum, warns,
                  returning, sent, counts, firstIoFail, cmpAt >>

\* The deadline of tn.expect elapses: it returns (-1, None, text) with all the
\* buffered text; the caller prints the text and carries on.
ExpectTimeout ==
  /\ pc = "run"
  /\ Cur.op = "expect"
  /\ ~tn.eof
  /\ peer = "up"
  /\ MatchEnd(Cur.pat, tn.cookedq) = 0
  /\ tn' = [tn EXCEPT !.cookedq = << >>]
  /\ PrintDecoded(tn.cookedq)
  /\ NoteTimeout
  /\ exact' = FALSE
  /\ Logged("received")
  /\ UNCHANGED doneSeen
  /\ UNCHANGED << inputs, caller, cluster, disk, pre_proc, locals, peer, uploaded_checksum, warns,
                  returning, sent, counts, firstIoFail, cmpAt >>

\* tn.expect meets end of file (or is entered after it): EOFError when the buffer
\* is empty, otherwise (-1, None, text) as for a timeout.
ExpectEOF ==
  /\ pc = "run"
  /\ Cur.op = "expect"
  /\ tn.eof \/ (peer = "closed" /\ MatchEnd(Cur.pat, tn.cookedq) = 0)
  /\ tn' = [tn EXCEPT !.eof = TRUE, !.cookedq = << >>]
  /\ IF tn.cookedq = << >> THEN Raise("EOFError") ELSE PrintDecoded(tn.cookedq)
  /\ NoteIoFail
  /\ IF tn.cookedq = << >> THEN UNCHANGED transcript ELSE Logged("received")
  /\ UNCHANGED doneSeen
  /\ UNCHANGED << inputs, caller, cluster, disk, pre_proc, locals, peer, uploaded_checksum, warns,
                  returning, sent, counts, firstTimeout, cmpAt, exact >>

\* ------------------------------------------------------------ the md5sum step
\* NoDigest without its return: the warning is issued and the dialogue goes on.
NoDigest_NoReturn ==
  /\ warns' = warns \cup {ErrMd5}
  /\ returning' = returning
  /\ Advance
  /\ UNCHANGED << uploaded_checksum, cmpAt >>

\* NoDigest without its warning: the function returns and says nothing.
NoDigest_Silent ==
  /\ warns' = warns
  /\ returning' = TRUE
  /\ pc' = "exit_with"
  /\ ip' = ip
  /\ exc' = exc
  /\ UNCHANGED << uploaded_checksum, cmpAt >>

\* if out[0] == -1: warnings.warn("Error generating file MD5 checksum."); return
NoDigest ==
  /\ warns' = warns \cup {ErrMd5}
  /\ returning' = TRUE
  /\ pc' = "exit_with"
  /\ ip' = ip
  /\ exc' = exc
  /\ UNCHANGED << uploaded_checksum, cmpAt >>

\* CompareChecksums that treats a mismatch like a missing digest: warn and return.
CompareChecksums_AbortOnMismatch(line) ==
  /\ uploaded_checksum' = ParseDigest(line)
  /\ cmpAt' = Len(sent)
  /\ IF ParseDigest(line) # local_checksum
       THEN /\ warns' = warns \cup {ErrMismatch}
            /\ returning' = TRUE
            /\ pc' = "exit_with"
            /\ ip' = ip
            /\ exc' = exc
       ELSE /\ warns' = warns
            /\ returning' = returning
            /\ Advance

\* CompareChecksums that compares the whole matched line, file name included,
\* with the local digest: the two are never equal.
CompareChecksums_WholeLine(line) ==
  /\ uploaded_checksum' = ParseDigest(line)
  /\ warns' = warns \cup {ErrMismatch}
  /\ cmpAt' = Len(sent)
  /\ returning' = returning
  /\ Advance

\* uploaded_checksum = out[1].group().decode("utf-8").split()[0]
\* if uploaded_checksum != local_checksum: warnings.warn("Checksums do not match.")
\* else: print("Checksums match.")
CompareChecksums(line) ==
  /\ uploaded_checksum' = ParseDigest(line)
  /\ warns' = IF ParseDigest(line) # local_checksum
                THEN warns \cup {ErrMismatch}
                ELSE warns
  /\ cmpAt' = Len(sent)
  /\ returning' = returning
  /\ Advance

\* out = tn.expect([re.compile(...)], 5) finds a digest line.
ExpectMd5Match ==
  /\ pc = "run"
  /\ Cur.op = "expect_md5"
  /\ ~tn.eof
  /\ LET e == MatchEnd(Cur.pat, tn.cookedq) IN
       /\ e # 0
       /\ tn' = [tn EXCEPT !.cookedq = SubSeq(@, e + 1, Len(@))]
       /\ CompareChecksums(tn.cookedq[e])
  /\ Logged("received")
  /\ UNCHANGED doneSeen
  /\ UNCHANGED << inputs, caller, cluster, disk, pre_proc, locals, peer, sent, counts, firstTimeout,
                  firstIoFail, exact >>

\* The deadline of the md5sum step elapses without a digest line.
ExpectMd5Timeout ==
  /\ pc = "run"
  /\ Cur.op = "expect_md5"
  /\ ~tn.eof
  /\ peer = "up"
  /\ MatchEnd(Cur.pat, tn.cookedq) = 0
  /\ tn' = [tn EXCEPT !.cookedq = << >>]
  /\ NoDigest
  /\ NoteTimeout
  /\ exact' = FALSE
  /\ Logged("received")
  /\ UNCHANGED doneSeen
  /\ UNCHANGED << inputs, caller, cluster, disk, pre_proc, locals, peer, sent, counts, firstIoFail >>

\* The md5sum step meets end of file: EOFError when the buffer is empty,
\* otherwise out[0] == -1.
ExpectMd5EOF ==
  /\ pc = "run"
  /\ Cur.op = "expect_md5"
  /\ tn.eof \/ (peer = "closed" /\ MatchEnd(Cur.pat, tn.cookedq) = 0)
  /\ tn' = [tn EXCEPT !.eof = TRUE, !.cookedq = << >>]
  /\ IF tn.cookedq = << >>
       THEN /\ Raise("EOFError")
            /\ UNCHANGED << warns, returning, uploaded_checksum, cmpAt >>
       ELSE NoDigest
  /\ NoteIoFail
  /\ IF tn.cookedq = << >> THEN UNCHANGED transcript ELSE Logged("received")
  /\ UNCHANGED doneSeen
  /\ UNCHANGED << inputs, caller, cluster, disk, pre_proc, locals, peer, sent, counts, firstTimeout, exact >>

\* ------------------------------------------------------------ leaving the function
\* ExitWith as it would be were tn.close() the last statement of the block
\* instead of the exit of a with statement: an exception skips it.
ExitWith_CloseOnlyAtEnd ==
  /\ pc = "exit_with"
  /\ tn' = [tn EXCEPT !.sock = IF exc = "None" /\ ~returning THEN "closed" ELSE @]
  /\ closes' = IF tn.sock = "open" /\ exc = "None" /\ ~returning
                 THEN closes + 1 ELSE closes
  /\ pc' = IF exc # "None" \/ returning THEN "done" ELSE "kill"
  /\ UNCHANGED << doneSeen, transcript >>
  /\ UNCHANGED << inputs, caller, cluster, disk, ip, pre_proc, locals, peer, uploaded_checksum, warns, exc,
                  returning, sent, opens, firstTimeout, firstIoFail, cmpAt, exact >>

\* Telnet.__exit__ calls close() however the with-block is left; an exception or
\* the early return then leaves the function, otherwise control falls through.
ExitWith ==
  /\ pc = "exit_with"
  /\ tn' = [tn EXCEPT !.sock = "closed"]
  /\ closes' = IF tn.sock = "open" THEN closes + 1 ELSE closes
  /\ pc' = IF exc # "None" \/ returning THEN "done" ELSE "kill"
  /\ UNCHANGED << doneSeen, transcript >>
  /\ UNCHANGED << inputs, caller, cluster, disk, ip, pre_proc, locals, peer, uploaded_checksum, warns, exc,
                  returning, sent, opens, firstTimeout, firstIoFail, cmpAt, exact >>

\* if pre_exec: pre_proc.kill(), the last statement of the function.
Kill ==
  /\ pc = "kill"
  /\ pre_proc' = IF pre_exec THEN "killed" ELSE pre_proc
  /\ pc' = "done"
  /\ UNCHANGED << doneSeen, transcript >>
  /\ UNCHANGED << inputs, caller, cluster, disk, ip, locals, tn, peer, uploaded_checksum, warns, exc,
                  returning, sent, counts, firstTimeout, firstIoFail, cmpAt, exact >>

\* ------------------------------------------------------------ specification
Next ==
  \/ Start
  \/ Md5sumFile
  \/ ReadConfig
  \/ OpenFileFails
  \/ FileModified
  \/ Connect
  \/ ConnectFails
  \/ \E chunk \in Chunks(proc, ip) : Recv(chunk)
  \/ RemoteClose
  \/ RemoteReset
  \/ Write
  \/ WriteFails
  \/ RecvFails
  \/ ReadUntilMatch
  \/ ReadUntilEOF
  \/ ExpectMatch
  \/ ExpectTimeout
  \/ ExpectEOF
  \/ ExpectMd5Match
  \/ ExpectMd5Timeout
  \/ ExpectMd5EOF
  \/ ExitWith
  \/ Kill

Spec == Init /\ [][Next]_vars

\* ------------------------------------------------------------ a router configured before
\* What config.b64 can hold on a router when a configure call begins: nothing,
\* or the upload of an earlier configure call, finished or abandoned.
PriorUploads == {<< >>} \cup {<< B64Encode(data) >> : data \in Contents}

\* configure_vyos_image_on_node is called on a router whatever was run on it
\* before.
ReconfigureInit ==
  /\ proc = "configure"
  /\ pre_exec \in BOOLEAN
  /\ file \in Contents
  /\ pc = "start"
  /\ ip = 1
  /\ pre_proc = "none"
  /\ local_checksum = -1
  /\ config = -1
  /\ tn = [sock |-> "none", cookedq |-> << >>, eof |-> FALSE]
  /\ peer = "up"
  /\ uploaded_checksum = -1
  /\ warns = {}
  /\ exc = "None"
  /\ returning = FALSE
  /\ sent = << >>
  /\ opens = 0
  /\ closes = 0
  /\ firstTimeout = 0
  /\ firstIoFail = 0
  /\ cmpAt = 0
  /\ exact = TRUE
  /\ doneSeen = FALSE
  /\ transcript = << >>
  /\ lpc = "single"
  /\ router = 1
  /\ node = [r \in Routers |-> "started"]
  /\ startedSinceOff = [r \in Routers |-> TRUE]
  /\ installOk = FALSE
  /\ liveSessions = 0
  /\ config_b64 \in PriorUploads
  /\ ClusterIdle

ReconfigureSpec == ReconfigureInit /\ [][Next]_vars

\* ------------------------------------------------------------ the provisioning loop
\* The configuration script of router r.
RouterConfig(r) == (r - 1) % NumContents

\* The state of the provisioning script before its loop over the routers: the
\* nodes exist and none is started.
LoopInit ==
  /\ proc = "install"
  /\ pre_exec = TRUE
  /\ file = 0
  /\ pc = "idle"
  /\ ip = 1
  /\ pre_proc = "none"
  /\ local_checksum = -1
  /\ config = -1
  /\ tn = [sock |-> "none", cookedq |-> << >>, eof |-> FALSE]
  /\ peer = "up"
  /\ uploaded_checksum = -1
  /\ warns = {}
  /\ exc = "None"
  /\ returning = FALSE
  /\ sent = << >>
  /\ opens = 0
  /\ closes = 0
  /\ firstTimeout = 0
  /\ firstIoFail = 0
  /\ cmpAt = 0
  /\ exact = TRUE
  /\ doneSeen = FALSE
  /\ transcript = << >>
  /\ lpc = "start_install"
  /\ router = 1
  /\ node = [r \in Routers |-> "stopped"]
  /\ startedSinceOff = [r \in Routers |-> FALSE]
  /\ installOk = FALSE
  /\ liveSessions = 0
  /\ config_b64 = << >>
  /\ ClusterIdle

\* The frame of a call of install_vyos_image_on_node or
\* configure_vyos_image_on_node: at the call its arguments are bound and its
\* locals are fresh (at = "start"); at the return they are gone (at = "idle",
\* or "raised" when the call ended by an exception, which nothing catches).
Frame(p, data, at) ==
  /\ proc' = p
  /\ pre_exec' = TRUE
  /\ file' = data
  /\ pc' = at
  /\ ip' = 1
  /\ pre_proc' = "none"
  /\ local_checksum' = -1
  /\ config' = -1
  /\ tn' = [sock |-> "none", cookedq |-> << >>, eof |-> FALSE]
  /\ peer' = "up"
  /\ uploaded_checksum' = -1
  /\ warns' = {}
  /\ exc' = "None"
  /\ returning' = FALSE
  /\ sent' = << >>
  /\ opens' = 0
  /\ closes' = 0
  /\ firstTimeout' = 0
  /\ firstIoFail' = 0
  /\ cmpAt' = 0
  /\ exact' = TRUE
  /\ doneSeen' = FALSE
  /\ transcript' = << >>

session == << proc, pre_exec, file, pc, ip, pre_proc, local_checksum, config, tn,
              peer, uploaded_checksum, warns, exc, returning, sent, opens, closes,
              firstTimeout, firstIoFail, cmpAt, exact, doneSeen, transcript >>

\* start_node(server, project, router_node["node_id"]): a stopped node starts;
\* a node that is up, also one that is shutting down, is left as it is.
StartNode(r) ==
  /\ node' = [node EXCEPT ![r] = IF @ = "stopped" THEN "started" ELSE @]
  /\ startedSinceOff' = [startedSinceOff EXCEPT ![r] = TRUE]

\* start_node before the install call.
StartNodeInstall ==
  /\ lpc = "start_install"
  /\ StartNode(router)
  /\ lpc' = "call_install"
  /\ UNCHANGED << session, disk, cluster, router, installOk, liveSessions >>

\* install_vyos_image_on_node(..., pre_exec=terminal_cmd) is called.
CallInstall ==
  /\ lpc = "call_install"
  /\ Frame("install", 0, "start")
  /\ lpc' = "install"
  /\ UNCHANGED << disk, cluster, router, node, startedSinceOff, installOk, liveSessions >>

\* ReturnInstall inside a try block whose handler ignores the exception: the
\* loop goes on to configure the router.
ReturnInstall_Caught ==
  /\ lpc = "install"
  /\ pc = "done"
  /\ Frame("install", 0, "idle")
  /\ lpc' = "start_configure"
  /\ installOk' = (exc = "None" /\ firstTimeout = 0 /\ firstIoFail = 0)
  /\ liveSessions' = liveSessions + (opens - closes)
  /\ UNCHANGED << disk, cluster, router, node, startedSinceOff >>

\* The install call returns, or its exception ends the script; time.sleep(10).
ReturnInstall ==
  /\ lpc = "install"
  /\ pc = "done"
  /\ Frame("install", 0, IF exc # "None" THEN "raised" ELSE "idle")
  /\ lpc' = IF exc # "None" THEN "aborted" ELSE "start_configure"
  /\ installOk' = (exc = "None" /\ firstTimeout = 0 /\ firstIoFail = 0)
  /\ liveSessions' = liveSessions + (opens - closes)
  /\ UNCHANGED << disk, cluster, router, node, startedSinceOff >>

\* The loop without the start request before the configure call.
StartNodeConfigure_Skipped ==
  /\ lpc = "start_configure"
  /\ lpc' = "call_configure"
  /\ UNCHANGED << session, disk, cluster, router, node, startedSinceOff, installOk, liveSessions >>

\* start_node before the configure call.
StartNodeConfigure ==
  /\ lpc = "start_configure"
  /\ StartNode(router)
  /\ lpc' = "call_configure"
  /\ UNCHANGED << session, disk, cluster, router, installOk, liveSessions >>

\* configure_vyos_image_on_node(..., router_config, pre_exec=terminal_cmd) is called.
CallConfigure ==
  /\ lpc = "call_configure"
  /\ Frame("configure", RouterConfig(router), "start")
  /\ lpc' = "configure"
  /\ UNCHANGED << disk, cluster, router, node, startedSinceOff, installOk, liveSessions >>

\* The configure call returns, or its exception ends the script; time.sleep(10);
\* the loop goes on to the next router, a node whose disk holds no upload yet.
ReturnConfigure ==
  /\ lpc = "configure"
  /\ pc = "done"
  /\ Frame("install", 0, IF exc # "None" THEN "raised" ELSE "idle")
  /\ liveSessions' = liveSessions + (opens - closes)
  /\ IF exc # "None"
       THEN lpc' = "aborted" /\ router' = router /\ UNCHANGED disk
       ELSE IF router = NumRouters
              THEN lpc' = "end" /\ router' = router /\ UNCHANGED disk
              ELSE lpc' = "start_install" /\ router' = router + 1 /\ config_b64' = << >>
  /\ installOk' = FALSE
  /\ UNCHANGED << cluster, node, startedSinceOff >>

\* start_node raises (r.raise_for_status()): the exception ends the script.
StartNodeFails ==
  /\ lpc \in {"start_install", "start_configure"}
  /\ lpc' = "aborted"
  /\ UNCHANGED << session, disk, cluster, router, node, startedSinceOff, installOk, liveSessions >>

\* The console has received poweroff and its confirmation: the router begins
\* to shut down.
NodeHalts ==
  /\ lpc \in {"install", "configure"}
  /\ node[router] = "started"
  /\ Len(sent) >= 2
  /\ sent[Len(sent) - 1].text = "poweroff\n"
  /\ sent[Len(sent)].text = "y\n"
  /\ node' = [node EXCEPT ![router] = "halting"]
  /\ startedSinceOff' = [startedSinceOff EXCEPT ![router] = FALSE]
  /\ UNCHANGED << session, disk, cluster, lpc, router, installOk, liveSessions >>

\* A router that was shutting down is off: its console is gone.
NodeOff(r) ==
  /\ lpc # "single"
  /\ node[r] = "halting"
  /\ node' = [node EXCEPT ![r] = "stopped"]
  /\ startedSinceOff' = [startedSinceOff EXCEPT ![r] = FALSE]
  /\ peer' = IF r = router /\ pc = "run" /\ peer = "up" THEN "closed" ELSE peer
  /\ exact' = IF r = router /\ pc = "run" /\ peer = "up" THEN FALSE ELSE exact
  /\ UNCHANGED << inputs, pc, ip, pre_proc, locals, tn, uploaded_checksum, warns,
                  exc, returning, sent, counts, firstTimeout, firstIoFail, cmpAt,
                  doneSeen, transcript, lpc, router, installOk, liveSessions, disk,
                  cluster >>

LoopNext ==
  \/ Next
  \/ StartNodeInstall
  \/ CallInstall
  \/ ReturnInstall
  \/ StartNodeConfigure
  \/ CallConfigure
  \/ ReturnConfigure
  \/ StartNodeFails
  \/ NodeHalts
  \/ \E r \in Routers : NodeOff(r)

LoopSpec == LoopInit /\ [][LoopNext]_vars

\* ------------------------------------------------------------ create_cluster_of_devices
\* create_cluster_of_devices(server, project, num_devices, ...) is called on an
\* empty project; no session runs.
ClusterInit ==
  /\ proc = "install"
  /\ pre_exec = FALSE
  /\ file = 0
  /\ pc = "idle"
  /\ ip = 1
  /\ pre_proc = "none"
  /\ local_checksum = -1
  /\ config = -1
  /\ tn = [sock |-> "none", cookedq |-> << >>, eof |-> FALSE]
  /\ peer = "up"
  /\ uploaded_checksum = -1
  /\ warns = {}
  /\ exc = "None"
  /\ returning = FALSE
  /\ sent = << >>
  /\ opens = 0
  /\ closes = 0
  /\ firstTimeout = 0
  /\ firstIoFail = 0
  /\ cmpAt = 0
  /\ exact = TRUE
  /\ doneSeen = FALSE
  /\ transcript = << >>
  /\ lpc = "cluster"
  /\ router = 1
  /\ node = [r \in Routers |-> "stopped"]
  /\ startedSinceOff = [r \in Routers |-> FALSE]
  /\ installOk = FALSE
  /\ liveSessions = 0
  /\ config_b64 = << >>
  /\ cpc = "assert"
  /\ num_devices \in (0 .. MaxDevices) \cup {SwitchPorts}
  /\ devices_per_row \in 1 .. MaxPerRow
  /\ dev_i = 0
  /\ dy = 0
  /\ switch_node_id = 0
  /\ devices_node_id = << >>
  /\ devices_link_id = << >>
  /\ gns3 = [nodes |-> << >>, links |-> << >>, files |-> << >>, drawings |-> 0]

notCluster == << proc, pre_exec, file, pc, ip, pre_proc, local_checksum, config, tn,
                 peer, uploaded_checksum, warns, returning, sent, opens, closes,
                 firstTimeout, firstIoFail, cmpAt, exact, doneSeen, transcript,
                 lpc, router, node, startedSinceOff, installOk, liveSessions,
                 config_b64 >>

\* The server creates a node from a template and answers with its node_id.
CreateNode(template, x, y) ==
  gns3' = [gns3 EXCEPT !.nodes = Append(@, [node_id |-> Len(@) + 1,
                                            template |-> template,
                                            x |-> x, y |-> y])]

\* assert num_devices < 64
AssertNumDevices ==
  /\ cpc = "assert"
  /\ IF num_devices < SwitchPorts
       THEN cpc' = "switch" /\ exc' = exc
       ELSE cpc' = "raised" /\ exc' = "AssertionError"
  /\ UNCHANGED << notCluster, num_devices, devices_per_row, dev_i, dy, switch_node_id,
                  devices_node_id, devices_link_id, gns3 >>

\* switch_node = create_node(...); switch_node_id = switch_node["node_id"];
\* devices_node_id = []; dy = 0
CreateSwitch ==
  /\ cpc = "switch"
  /\ CreateNode("switch", devices_per_row \div 2, -1)
  /\ switch_node_id' = Len(gns3.nodes) + 1
  /\ devices_node_id' = << >>
  /\ dy' = 0
  /\ dev_i' = 0
  /\ cpc' = "devices"
  /\ UNCHANGED << notCluster, exc, num_devices, devices_per_row, devices_link_id >>

\* for i in range(num_devices): device_node = create_node(...);
\* devices_node_id.append(device_node["node_id"]); dy moves to the next row
\* after the last device of a row.
CreateDevice ==
  /\ cpc = "devices"
  /\ dev_i < num_devices
  /\ CreateNode("device", dev_i % devices_per_row, dy)
  /\ devices_node_id' = Append(devices_node_id, Len(gns3.nodes) + 1)
  /\ dy' = IF dev_i % devices_per_row = devices_per_row - 1 THEN dy + 1 ELSE dy
  /\ dev_i' = dev_i + 1
  /\ UNCHANGED << notCluster, exc, cpc, num_devices, devices_per_row, switch_node_id,
                  devices_link_id >>

\* CreateLink with the devices counted from 0: enumerate(devices_node_id).
CreateLink_FromZero ==
  /\ cpc = "links"
  /\ dev_i <= Len(devices_node_id)
  /\ gns3' = [gns3 EXCEPT !.links =
                Append(@, [link_id |-> Len(@) + 1,
                           node1 |-> devices_node_id[dev_i], adapter1 |-> 0,
                           node2 |-> switch_node_id, adapter2 |-> dev_i - 1])]
  /\ devices_link_id' = Append(devices_link_id, Len(gns3.links) + 1)
  /\ dev_i' = dev_i + 1
  /\ UNCHANGED << notCluster, exc, cpc, num_devices, devices_per_row, dy,
                  switch_node_id, devices_node_id >>

\* for i, dev in enumerate(devices_node_id, start=1):
\*     dev_link = create_link(server, project, dev, 0, switch_node_id, i)
\*     devices_link_id.append(dev_link["link_id"])
CreateLink ==
  /\ cpc = "links"
  /\ dev_i <= Len(devices_node_id)
  /\ gns3' = [gns3 EXCEPT !.links =
                Append(@, [link_id |-> Len(@) + 1,
                           node1 |-> devices_node_id[dev_i], adapter1 |-> 0,
                           node2 |-> switch_node_id, adapter2 |-> dev_i])]
  /\ devices_link_id' = Append(devices_link_id, Len(gns3.links) + 1)
  /\ dev_i' = dev_i + 1
  /\ UNCHANGED << notCluster, exc, cpc, num_devices, devices_per_row, dy,
                  switch_node_id, devices_node_id >>

\* for i, dev in enumerate(devices_node_id, start=0):
\*     set_node_network_interfaces(..., dev, "eth0", start_ip + i, ...)
SetNodeNetworkInterfaces ==
  /\ cpc = "interfaces"
  /\ dev_i < Len(devices_node_id)
  /\ gns3' = [gns3 EXCEPT !.files =
                Append(@, [node_id |-> devices_node_id[dev_i + 1], ip |-> dev_i])]
  /\ dev_i' = dev_i + 1
  /\ UNCHANGED << notCluster, exc, cpc, num_devices, devices_per_row, dy,
                  switch_node_id, devices_node_id, devices_link_id >>

\* A for loop is exhausted: the assert on the length of its list, and the
\* next loop begins.
LoopExhausted ==
  /\ \/ /\ cpc = "devices"
        /\ dev_i = num_devices
        /\ IF Len(devices_node_id) = num_devices
             THEN cpc' = "links" /\ exc' = exc
             ELSE cpc' = "raised" /\ exc' = "AssertionError"
        /\ dev_i' = 1
        /\ devices_link_id' = << >>
     \/ /\ cpc = "links"
        /\ dev_i > Len(devices_node_id)
        /\ IF Len(devices_link_id) = num_devices
             THEN cpc' = "interfaces" /\ exc' = exc
             ELSE cpc' = "raised" /\ exc' = "AssertionError"
        /\ dev_i' = 0
        /\ devices_link_id' = devices_link_id
     \/ /\ cpc = "interfaces"
        /\ dev_i = Len(devices_node_id)
        /\ cpc' = "drawing"
        /\ exc' = exc
        /\ dev_i' = dev_i
        /\ devices_link_id' = devices_link_id
  /\ UNCHANGED << notCluster, num_devices, devices_per_row, dy, switch_node_id,
                  devices_node_id, gns3 >>

\* The decoration is posted and the function returns its lists.
PostDrawing ==
  /\ cpc = "drawing"
  /\ gns3' = [gns3 EXCEPT !.drawings = @ + 1]
  /\ cpc' = "done"
  /\ UNCHANGED << notCluster, exc, num_devices, devices_per_row, dev_i, dy,
                  switch_node_id, devices_node_id, devices_link_id >>

\* A request is answered with an error: raise_for_status() raises.
ClusterRequestFails ==
  /\ \/ cpc \in {"switch", "drawing"}
     \/ cpc = "devices" /\ dev_i < num_devices
     \/ cpc = "links" /\ dev_i <= Len(devices_node_id)
     \/ cpc = "interfaces" /\ dev_i < Len(devices_node_id)
  /\ cpc' = "raised"
  /\ exc' = "HTTPError"
  /\ UNCHANGED << notCluster, num_devices, devices_per_row, dev_i, dy, switch_node_id,
                  devices_node_id, devices_link_id, gns3 >>

ClusterNext ==
  \/ AssertNumDevices
  \/ CreateSwitch
  \/ CreateDevice
  \/ CreateLink
  \/ SetNodeNetworkInterfaces
  \/ LoopExhausted
  \/ PostDrawing
  \/ ClusterRequestFails

ClusterSpec == ClusterInit /\ [][ClusterNext]_vars

\* ------------------------------------------------------------ claims
\* The program's own steps: everything but what the remote end does.
SessionStep ==
  \/ Start \/ Md5sumFile \/ ReadConfig \/ OpenFileFails \/ Connect \/ ConnectFails
  \/ Write \/ WriteFails \/ RecvFails \/ ReadUntilMatch \/ ReadUntilEOF
  \/ ExpectMatch \/ ExpectTimeout \/ ExpectEOF
  \/ ExpectMd5Match \/ ExpectMd5Timeout \/ ExpectMd5EOF
  \/ ExitWith \/ Kill

\* C1: a connection that was opened is closed exactly once before the function
\* returns, however it returns; it is never closed twice, and the socket is
\* open only inside the with-block.
C1_ClosedExactlyOnce ==
  /\ closes <= opens
  /\ opens <= 1
  /\ (pc \in {"kill", "done"} => closes = opens)
  /\ (tn.sock = "open" => pc \in {"run", "exit_with"})

\* C1 witness: an exception was raised mid-dialogue, after bytes were written,
\* and the function has returned with the connection closed once.
C1_Witness ==
  /\ pc = "done"
  /\ exc \in {"EOFError", "OSError", "ConnectionResetError", "UnicodeDecodeError"}
  /\ Len(sent) > 0
  /\ opens = 1
  /\ closes = 1

\* C2: once a wait has ended by its deadline, no bytes of a later step are
\* written and the session ends as a failure.
C2_TimeoutEndsSession ==
  firstTimeout # 0 =>
    /\ \A k \in 1 .. Len(sent) : sent[k].step < firstTimeout
    /\ (pc = "done" => (exc # "None" \/ warns # {}))

\* C3: a session that returns without exception and without warning had every
\* awaited pattern matched within its deadline.
C3_NoSilentFailure ==
  (pc = "done" /\ exc = "None" /\ warns = {}) =>
    (firstTimeout = 0 /\ firstIoFail = 0)

\* C4: while the remote end stays connected the session can always take a step
\* of its own, whatever the console has or has not produced: no wait depends
\* on the remote end to finish.
C4_EveryWaitEnds ==
  (pc # "done" /\ peer = "up") => ENABLED SessionStep

\* C5: when the helper process was spawned, it has been killed by the time the
\* function returns, however it returns.
C5_HelperAlwaysKilled ==
  (pc = "done" /\ pre_proc # "none") => pre_proc = "killed"

\* The texts written so far, in order.
SentTexts == [k \in 1 .. Len(sent) |-> sent[k].text]

IsPrefix(a, b) == Len(a) <= Len(b) /\ \A k \in 1 .. Len(a) : a[k] = b[k]

\* The commands of the configure dialogue that follow the md5sum step.
AfterChecksum == << "chmod +x config.sh\n", "./config.sh\n", "poweroff\n", "y\n" >>

\* C6: in the configure dialogue the comparison of the digests, whatever its
\* result, is followed by the same writes: chmod, ./config.sh, poweroff and y,
\* in that order; a session that made the comparison and returns without
\* exception wrote all four and did not take the early return.
C6_MismatchDoesNotAbort ==
  (proc = "configure" /\ cmpAt # 0) =>
    LET after == SubSeq(SentTexts, cmpAt + 1, Len(sent)) IN
      /\ IsPrefix(after, AfterChecksum)
      /\ ~returning
      /\ ((pc = "done" /\ exc = "None") =>
            (after = AfterChecksum /\ warns \subseteq {ErrMismatch}))

\* C6 witness: the digests differed, the warning was issued, and the session
\* wrote the four commands and returned without exception.
C6_Witness ==
  /\ proc = "configure"
  /\ pc = "done"
  /\ exc = "None"
  /\ ErrMismatch \in warns
  /\ uploaded_checksum # local_checksum
  /\ SubSeq(SentTexts, Len(sent) - 3, Len(sent)) = AfterChecksum

\* C7: the mismatch warning has been issued exactly when a digest was captured
\* from the console and differs from the digest of the local file.
C7_MarkerIffDigestsDiffer ==
  proc = "configure" =>
    ((ErrMismatch \in warns) <=>
       (uploaded_checksum # -1 /\ uploaded_checksum # local_checksum))

\* C7 witness: a digest equal to the local one was captured and no mismatch
\* warning exists.
C7_Witness ==
  /\ proc = "configure"
  /\ cmpAt # 0
  /\ uploaded_checksum = local_checksum
  /\ local_checksum = Md5(file)
  /\ ErrMismatch \notin warns

\* The outbound messages of the two dialogues, as the scripts list them.
InstallWrites ==
  << "vyos\n", "vyos\n", "install image\n", "Yes\n", "Auto\n", "\n", "Yes\n",
     "\n", "\n", "\n", "vyos\n", "vyos\n", "\n", "poweroff\n", "y\n" >>
ConfigureWrites ==
  << "vyos\n", "vyos\n", "echo '<config>' >> config.b64\n",
     "base64 --decode config.b64 > config.sh\n", "md5sum config.sh\n",
     "chmod +x config.sh\n", "./config.sh\n", "poweroff\n", "y\n" >>
ScriptWrites == IF proc = "install" THEN InstallWrites ELSE ConfigureWrites

\* C8: against a remote that replies exactly the awaited pattern at each wait,
\* within the deadline, the session writes the messages of its script once each
\* in script order (the upload carrying the base64 of the local file), returns
\* without exception and without the md5 error, and closes the connection once.
C8_ExactRemoteSucceeds ==
  exact =>
    /\ IsPrefix(SentTexts, ScriptWrites)
    /\ exc = "None"
    /\ ErrMd5 \notin warns
    /\ (pc = "done" =>
          /\ SentTexts = ScriptWrites
          /\ opens = 1
          /\ closes = 1
          /\ (proc = "configure" => sent[3].b64 = B64Encode(file)))

\* C8 witness: an install session against such a remote has returned.
C8_Witness ==
  /\ exact
  /\ proc = "install"
  /\ pc = "done"
  /\ Len(sent) = 15

\* C9: a transport failure is fatal and never retried: nothing is written when
\* the connection could not be opened, the connection is opened at most once,
\* no bytes of a later step are written after a read or write failed, and the
\* failure reaches the caller.
C9_TransportFailureFatal ==
  /\ opens <= 1
  /\ (opens = 0 => sent = << >>)
  /\ (firstIoFail # 0 =>
        /\ \A k \in 1 .. Len(sent) : sent[k].step < firstIoFail
        /\ (pc = "done" => (exc # "None" \/ warns # {})))

\* C10: whenever ./config.sh has been written, the upload, the decode command
\* and chmod were written before it in that order, and the remote digest was
\* captured and compared after the decode command and before chmod.
C10_ExecuteOnlyAfterVerify ==
  \A k \in 1 .. Len(sent) :
    sent[k].text = "./config.sh\n" =>
      /\ cmpAt # 0
      /\ uploaded_checksum # -1
      /\ \E i, j, l \in 1 .. (k - 1) :
           /\ i < j /\ j < l
           /\ sent[i].b64 # -1
           /\ sent[j].text = "base64 --decode config.b64 > config.sh\n"
           /\ j <= cmpAt /\ cmpAt < l
           /\ sent[l].text = "chmod +x config.sh\n"

\* C10 witness: ./config.sh has been written.
C10_Witness ==
  \E k \in 1 .. Len(sent) : sent[k].text = "./config.sh\n"

\* C11: in the configure dialogue poweroff is written only when the wait for
\* the completion marker "Done" has found it.
C11_PoweroffOnlyAfterDone ==
  proc = "configure" =>
    \A k \in 1 .. Len(sent) : sent[k].text = "poweroff\n" => doneSeen

\* The initial read returned because it found the banner.
BannerMatched == ip > 1 /\ firstIoFail # 1

\* C12: nothing is written to the console before the login banner has been
\* matched.
C12_NoWriteBeforeBanner ==
  sent # << >> => BannerMatched

\* The with-block has been left.
Ended == pc \in {"exit_with", "kill", "done"}

C14_DigestAndPayloadOfSameBytes ==
  (local_checksum # -1 /\ config # -1) =>
    \E data \in Contents : local_checksum = Md5(data) /\ config = B64Encode(data)

\* Every wait of the call returned with its pattern, and the call returned.
Succeeded ==
  pc = "done" /\ exc = "None" /\ warns \subseteq {ErrMismatch}
    /\ firstTimeout = 0 /\ firstIoFail = 0

\* C20: the transcript of a successful install call holds twice as many events
\* as the script has messages: as many returned waits as writes, in the order
\* in which they happened.
C20_TranscriptOfInstall ==
  (proc = "install" /\ Succeeded) =>
    /\ Len(transcript) = 2 * Len(InstallWrites)
    /\ Cardinality({k \in 1 .. Len(transcript) : transcript[k].dir = "received"})
         = Cardinality({k \in 1 .. Len(transcript) : transcript[k].dir = "sent"})
    /\ \A k \in 1 .. (Len(transcript) - 1) :
         transcript[k].step < transcript[k + 1].step
    /\ [k \in 1 .. Len(sent) |-> sent[k].step]
         = [k \in 1 .. Len(sent) |->
              transcript[CHOOSE n \in 1 .. Len(transcript) :
                 /\ transcript[n].dir = "sent"
                 /\ Cardinality({m \in 1 .. n : transcript[m].dir = "sent"}) = k].step]

\* C20 witness: an install call has succeeded although the console also
\* produced text that was not awaited.
C20_Witness ==
  /\ proc = "install"
  /\ Succeeded
  /\ ~exact
  /\ Len(transcript) = 30

\* C15: in the provisioning loop the configure session of a router runs only
\* after the install session on that router succeeded: it raised nothing and
\* none of its waits timed out or failed.
C15_ConfigureOnlyAfterInstallOk ==
  lpc \in {"call_configure", "configure"} => installOk

C21_FullBufferEndsWait ==
  (/\ pc = "run"
   /\ IsWait(Cur)
   /\ ~tn.eof
   /\ peer = "up"
   /\ Len(tn.cookedq) = MaxBuf
   /\ MatchEnd(Cur.pat, tn.cookedq) = 0)
    => ENABLED (ExpectTimeout \/ ExpectMd5Timeout)

Md5Step == CHOOSE i \in 1 .. Len(ConfigureProgram) : ConfigureProgram[i].op = "expect_md5"

\* C23: in the configure dialogue the md5sum step is passed only with a digest
\* line captured; when its wait returns without one the warning is issued,
\* nothing after "md5sum config.sh" is written, and the function returns with
\* the connection closed.
C23_NoDigestEndsSession ==
  proc = "configure" =>
    /\ (ip > Md5Step => uploaded_checksum # -1)
    /\ (returning =>
          /\ ip = Md5Step
          /\ uploaded_checksum = -1
          /\ ErrMd5 \in warns
          /\ \A k \in 1 .. Len(sent) :
               sent[k].step < Md5Step /\ sent[k].text \notin
                 {"chmod +x config.sh\n", "./config.sh\n", "poweroff\n", "y\n"}
          /\ pc \in {"exit_with", "done"}
          /\ (pc = "done" => (tn.sock = "closed" /\ closes = 1)))

\* C23 witness: the deadline of the md5sum step elapsed, the first wait of the
\* call to time out, and the function has returned.
C23_Witness ==
  /\ proc = "configure"
  /\ pc = "done"
  /\ returning
  /\ firstTimeout = Md5Step
  /\ ErrMd5 \in warns
  /\ Len(sent) = 5

\* C24: in the provisioning loop the router is running, neither shutting down
\* nor off, when the configure call that follows the start request begins and
\* until it connects.
C24_StartTakesEffect ==
  (\/ lpc = "call_configure"
   \/ (lpc = "configure" /\ pc \in {"start", "md5sum_file", "read_config", "connect"}))
    => node[router] = "started"

\* C25: a wait for the shell prompt is satisfied only by a prompt received
\* after the command before it was written.  The case of the md5sum step: when
\* chmod is about to be written, after a dialogue in which every wait found
\* its pattern, the buffer holds no prompt that the wait after chmod would take.
C25_PromptAnswersOwnStep ==
  (/\ proc = "configure"
   /\ pc = "run"
   /\ ip = Md5Step + 1
   /\ Program(proc)[ip + 1].pat = ShellPrompt
   /\ firstTimeout = 0
   /\ firstIoFail = 0)
    => MatchEnd(ShellPrompt, tn.cookedq) = 0

\* C27: console output that matches no awaited pattern never aborts the
\* session: no exception comes from the content of what was received.
C27_ContentNeverAborts ==
  exc # "UnicodeDecodeError"

\* base64 --decode config.b64 > config.sh: the decoded uploads, one after the
\* other.
B64Decode(payload) == payload - NumContents
ConfigSh == [k \in 1 .. Len(config_b64) |-> B64Decode(config_b64[k])]

\* C26: once the decode command has been written in a configure session whose
\* console replied to every command as awaited, the file that is digested and
\* executed holds the content of the local script and nothing else, whatever
\* config.b64 held on the router before.
C26_RemoteFileIsLocalScript ==
  (/\ proc = "configure"
   /\ exact
   /\ \E k \in 1 .. Len(sent) : sent[k].text = "base64 --decode config.b64 > config.sh\n")
    => ConfigSh = << B64Decode(config) >>

\* C28: in the provisioning run an exception of an install or configure call
\* is not caught: it ends the script, after which no session is opened, no
\* call is made, no start request is issued and no other router is taken up.
C28_ExceptionEndsRun ==
  [][ /\ (lpc \in {"install", "configure"} /\ pc = "done" /\ exc # "None"
            /\ pc' # pc) => (lpc' = "aborted" /\ pc' = "raised")
      /\ lpc = "aborted" =>
           /\ lpc' = "aborted"
           /\ UNCHANGED << session, router, liveSessions >>
           /\ \A r \in Routers :
                /\ startedSinceOff'[r] => startedSinceOff[r]
                /\ node'[r] = "started" => node[r] = "started"
    ]_vars

\* C28 witness: the install call on the first router raised; the script has
\* ended and the next router was never started.
C28_Witness ==
  /\ lpc = "aborted"
  /\ pc = "raised"
  /\ router = 1
  /\ node[router] = "started"
  /\ node[2] = "stopped"
  /\ ~startedSinceOff[2]

\* C29: a call of gns3utils.py without pre_exec goes through the dialogue of
\* scenario.py: the two have as many statements, the statement being executed
\* is the same write or the same wait, with the same text, pattern and
\* deadline, and no helper process exists.
C29_SameDialogueAsScenario ==
  ~pre_exec =>
    /\ Len(ScenarioProgram(proc)) = Len(Program(proc))
    /\ ScenarioProgram(proc)[ip] = Cur
    /\ pre_proc = "none"

\* C29 witness: a configure call without pre_exec went through the whole
\* dialogue and has returned.
C29_Witness ==
  /\ ~pre_exec
  /\ proc = "configure"
  /\ pc = "done"
  /\ exc = "None"
  /\ ip = Len(ConfigureProgram)
  /\ SentTexts = ConfigureWrites

\* The nodes of the project created from a template.
NodesOf(template) ==
  {k \in 1 .. Len(gns3.nodes) : gns3.nodes[k].template = template}

\* C30: when create_cluster_of_devices returns, the project holds one switch,
\* num_devices devices and num_devices links; the link of the i-th created
\* device goes from its adapter 0 to adapter i of the switch, so no adapter of
\* the switch is used twice and its adapter 0 is free; meanwhile there are
\* never more links than devices, nor more devices than asked for.
C30_ClusterShape ==
  /\ Cardinality(NodesOf("device")) <= num_devices
  /\ Len(gns3.links) <= Cardinality(NodesOf("device"))
  /\ cpc = "done" =>
       /\ num_devices < SwitchPorts
       /\ Cardinality(NodesOf("switch")) = 1
       /\ Cardinality(NodesOf("device")) = num_devices
       /\ Len(gns3.links) = num_devices
       /\ Len(devices_node_id) = num_devices
       /\ \A k \in 1 .. num_devices :
            /\ gns3.nodes[devices_node_id[k]].template = "device"
            /\ \A j \in 1 .. num_devices : devices_node_id[j] = devices_node_id[k] => j = k
            /\ gns3.links[k].node1 = devices_node_id[k]
            /\ gns3.links[k].adapter1 = 0
            /\ gns3.links[k].node2 = switch_node_id
            /\ gns3.links[k].adapter2 = k
       /\ gns3.nodes[switch_node_id].template = "switch"
       /\ \A k, j \in 1 .. Len(gns3.links) :
            gns3.links[k].adapter2 = gns3.links[j].adapter2 => k = j
       /\ \A k \in 1 .. Len(gns3.links) : gns3.links[k].adapter2 # 0

\* C30 witness: a cluster of the largest size, in rows of two, is complete.
C30_Witness ==
  /\ cpc = "done"
  /\ num_devices = MaxDevices
  /\ devices_per_row = 2
  /\ Len(gns3.links) = MaxDevices
  /\ dy > 1

====
